---- MODULE Spec2Model ----
(***************************************************************************)
(* Cart, checkout and admin operations of the restaurant storefront, over  *)
(* the relational store declared in supabase/seed.sql.                     *)
(*                                                                         *)
(* Money is counted in whole cents (DECIMAL(10,2) columns).  Every handler *)
(* is cut at its awaits: one action per store call (the call's effect on   *)
(* the store together with the handler code that precedes it), and one     *)
(* action for the handler code that runs after the last response.          *)
(***************************************************************************)
EXTENDS Integers, FiniteSets, Sequences, TLC

\* ------------------------------------------------------------------ bounds
\* The largest quantity a cart line is taken to (addToCart is not offered on
\* a line that has reached it).
MaxQty == 2

\* ------------------------------------------------------------ value spaces
Users == {"u1", "u2"}
NoUser == "none"
\* The browsers, and as well the handler invocations that can be in flight
\* side by side (see `provider`).
Sessions == {"s1", "s2"}
\* The ids uuid_generate_v4 hands out for products and for orders, and the
\* prices (in cents) an admin enters.
ProductIds == {1, 2}
OrderIds == {1}
Prices == {1, 2}
Roles == {"user", "admin"}
Statuses == {"pending", "preparing", "ready", "delivered"}

\* Quantities a caller can pass to updateQuantity (the cart page passes
\* item.quantity - 1 and item.quantity + 1).
QtyArgs == (0 - 1)..MaxQty

\* The form of the product modal: whether name.trim() and category.trim()
\* are empty, and the price (parseFloat(value) || 0), in cents.
Forms == [nameEmpty : BOOLEAN, price : {0 - 1, 0} \cup Prices, categoryEmpty : BOOLEAN]

\* The forms that pass the three checks of handleProductSubmit.
ValidForms == {f \in Forms : ~f.nameEmpty /\ f.price > 0 /\ ~f.categoryEmpty}

\* The form as useState creates it and as closeModal and a successful submit
\* reset it; the modal closed.
BlankForm == [nameEmpty |-> TRUE, price |-> 0, categoryEmpty |-> TRUE]
ClosedModal == [show |-> FALSE, editing |-> 0, form |-> BlankForm]

VARIABLES
    profiles,     \* store: profiles.role, by user id
    products,     \* store: products.price, by id of the rows that exist
    usedProductIds, \* ids uuid_generate_v4 has handed out for products
    cart_items,   \* store: set of rows [id, user_id, product_id, quantity]
    orders,       \* store: sequence of rows [user_id, total_amount, status]; id = index
    order_items,  \* store: set of rows [order_id, product_id, quantity, price]
    user,         \* per session: the authenticated user, or NoUser
    profile,      \* per session: the role the client holds for its user
    cartItems,    \* per session: the in-memory cart (CartProvider state)
    task,         \* per session: the handler invocation in flight
    last,         \* what an observed handler did in the step just taken: it was
                  \* called (with pid, qty) or it returned (showing toasts)
    observed,     \* the handlers whose calls and returns `last` records
    modal,        \* per session: the product modal of the dashboard (shown or
                  \* not, the product being edited or 0, the form)
    provider,     \* per invocation slot: the session (browser) whose handlers
                  \* run in it
    maxOrders     \* the number of orders after which no checkout is started

vars == <<profiles, products, usedProductIds, cart_items, orders, order_items,
          user, profile, cartItems, task, last, observed, modal,
          provider, maxOrders>>

storeVars == <<profiles, products, usedProductIds, cart_items, orders, order_items>>

\* ------------------------------------------------------------------ toasts
T_LoginToAdd == "Please login to add items to cart"
T_AddFailed == "Failed to add item to cart"
T_RemoveFailed == "Failed to remove item from cart"
T_UpdateFailed == "Failed to update quantity"
T_ClearFailed == "Failed to clear cart"
T_LoadFailed == "Failed to load cart items"
T_CartEmpty == "Cart is empty"
T_CheckoutFailed == "Failed to process checkout"
T_OrderPlaced == "Order placed successfully!"
T_LoginToCheckout == "Please login to checkout"
T_YourCartEmpty == "Your cart is empty"
T_NameRequired == "Product name is required"
T_PriceRequired == "Price must be greater than 0"
T_CategoryRequired == "Category is required"
T_ProductUpdated == "Product updated successfully!"
T_ProductCreated == "Product created successfully!"
T_ProductDeleted == "Product deleted successfully!"
T_StatusUpdated == "Order status updated!"
T_StoreError == "error.message"
T_AddedToCart == "${product.name} added to cart!"

\* toast.error messages; the others are toast.success.
ErrorToasts == {T_LoginToAdd, T_AddFailed, T_RemoveFailed, T_UpdateFailed,
                T_ClearFailed, T_LoadFailed, T_CartEmpty, T_CheckoutFailed,
                T_LoginToCheckout, T_YourCartEmpty, T_NameRequired,
                T_PriceRequired, T_CategoryRequired, T_StoreError}

\* ------------------------------------------------------------- the store
NoRow == [id |-> <<NoUser, 0, 0>>, user_id |-> NoUser, product_id |-> 0, quantity |-> 0]

\* public.is_admin(): the caller's profiles row has role 'admin'.
is_admin(uid) == uid \in Users /\ profiles[uid] = "admin"

\* Rows of cart_items a SELECT/UPDATE/DELETE by caller uid reaches under the
\* row-level policies (own rows; admins may SELECT every row).
CartRowsVisible(uid) == {r \in cart_items : r.user_id = uid \/ is_admin(uid)}
CartRowsOwned(uid) == {r \in cart_items : r.user_id = uid}

\* uuid_generate_v4() for a cart_items row.  Ids are opaque and compared
\* only with each other, so a new row of (uid, p) is named <<uid, p, k>> with
\* the first k that no row and no reference held in flight carries.
HeldCartIds == {r.id : r \in cart_items} \cup {task[s].existing.id : s \in Sessions}

FreshCartId(uid, p) ==
    LET k == CHOOSE i \in 1..(Cardinality(HeldCartIds) + 1) :
                 /\ <<uid, p, i>> \notin HeldCartIds
                 /\ \A j \in 1..(i - 1) : <<uid, p, j>> \in HeldCartIds
    IN  <<uid, p, k>>

\* The insert into cart_items without UNIQUE(user_id, product_id).
CartInsertAccepted_NoUnique(uid, row) ==
    /\ row.user_id = uid
    /\ row.product_id \in DOMAIN products

\* INSERT INTO cart_items: UNIQUE(user_id, product_id), the foreign key to
\* products and the insert policy (auth.uid() = user_id) decide acceptance.
CartInsertAccepted(uid, row) ==
    /\ row.user_id = uid
    /\ row.product_id \in DOMAIN products
    /\ ~\E r \in cart_items : r.user_id = row.user_id /\ r.product_id = row.product_id

\* ON DELETE CASCADE from products to cart_items and to order_items.
CascadeCart(pid) == {r \in cart_items : r.product_id # pid}
CascadeOrderItems(pid) == {r \in order_items : r.product_id # pid}

\* -------------------------------------------------------- in-memory cart
RECURSIVE Reduce(_, _)
\* cartItems.reduce((total, item) => total + item.price * item.quantity, 0)
Reduce(items, total) ==
    IF items = {} THEN total
    ELSE LET item == CHOOSE i \in items : TRUE
         IN  Reduce(items \ {item}, total + (item.price * item.quantity))

RECURSIVE ReducePrices(_, _)
\* The reduce adding item.price alone.
ReducePrices(items, total) ==
    IF items = {} THEN total
    ELSE LET item == CHOOSE i \in items : TRUE
         IN  ReducePrices(items \ {item}, total + item.price)

getCartTotal_QuantityIgnored(items) == ReducePrices(items, 0)

getCartTotal(items) == Reduce(items, 0)

\* The manual join of fetchCartItems: one line per cart row; a row whose
\* product is not in the products read gets the placeholder name and price 0.
JoinLine(item, prods) ==
    [id |-> item.id,
     product_id |-> item.product_id,
     name |-> IF item.product_id \in DOMAIN prods THEN "product" ELSE "Unknown Product",
     price |-> IF item.product_id \in DOMAIN prods THEN prods[item.product_id] ELSE 0,
     quantity |-> item.quantity]

\* The join as an inner join: a row whose product was not read gives no line.
cartWithProducts_KnownOnly(rows, prods) ==
    {JoinLine(item, prods) : item \in {r \in rows : r.product_id \in DOMAIN prods}}

\* cartData.map(item => ({... name: product?.name || 'Unknown Product', ...}))
cartWithProducts(rows, prods) == {JoinLine(item, prods) : item \in rows}

\* ------------------------------------------------------ handler invocations
\* A response of one of the two reads of fetchCartItems.
Pending == [st |-> "pending", rows |-> {}, prods |-> <<>>]
Failed == [st |-> "error", rows |-> {}, prods |-> <<>>]
CartRead(rows) == [st |-> "ok", rows |-> rows, prods |-> <<>>]
ProductsRead(prods) == [st |-> "ok", rows |-> {}, prods |-> prods]

\* No invocation in flight.  The fields of an invocation: the handler (op),
\* the identity its pending store request was sent with (auth: the policies
\* are evaluated for it, while the filters use the captured user),
\* the await it stands at (pc), the values its closure captured (user,
\* items = cartItems, pid = product.id), its locals (existing, order, the two
\* read results), whether the lookup of addToCart was answered with the error
\* that addToCart does not read, and the toasts it has shown so far.
Idle ==
    [op |-> "none", pc |-> "idle", user |-> NoUser, auth |-> NoUser, pid |-> 0,
     items |-> {}, existing |-> NoRow, lookupError |-> FALSE, order |-> 0,
     cartRes |-> Pending, prodRes |-> Pending, toasts |-> {}]

\* What `last` holds after a step in which no observed handler was called
\* or returned.
NoOutcome ==
    [session |-> "none", op |-> "none", event |-> "none", pid |-> 0, qty |-> 0,
     toasts |-> {}]

Outcome(s, op, event, p, q, toasts) ==
    IF op \in observed
    THEN [session |-> s, op |-> op, event |-> event, pid |-> p, qty |-> q,
          toasts |-> toasts]
    ELSE NoOutcome

\* A step inside a handler: nothing is called, nothing returns.
Quiet == last' = NoOutcome

\* Handler op is called in session s with arguments (p, q) and reaches its
\* next await in invocation t.
Call(s, op, p, q, t) ==
    /\ task' = [task EXCEPT ![s] = t]
    /\ last' = Outcome(s, op, "call", p, q, {})

Start(s, op, pc) ==
    [Idle EXCEPT !.op = op, !.pc = pc, !.user = user[provider[s]],
                 !.auth = user[provider[s]]]

\* What the caller of the context's handler shows once the awaited call has
\* come back: Home.handleAddToCart goes on to toast.success (addToCart
\* catches its own errors and never throws).
AfterAwait(t) == IF t.op = "handleAddToCart" THEN {T_AddedToCart} ELSE {}

\* The invocation of session s returns, having shown `toasts`.
Return(s, toasts) ==
    /\ last' = Outcome(s, task[s].op, "return", task[s].pid, 0,
                       toasts \cup AfterAwait(task[s]))
    /\ task' = [task EXCEPT ![s] = Idle]

\* Handler op, called with (p, q), returns before another step can be taken.
ReturnAtOnce(s, op, p, q, toasts) ==
    /\ last' = Outcome(s, op, "return", p, q, toasts)
    /\ UNCHANGED task

\* Invocation t of slot s issues its next store request: the request carries
\* the identity the browser is signed in with at that moment.
Signed(s, t) == [t EXCEPT !.auth = user[provider[s]]]

\* The handler goes on to `await fetchCartItems()`: both reads are issued.
ToFetch(t) == [t EXCEPT !.pc = "fetch", !.cartRes = Pending, !.prodRes = Pending]

\* The store as seeded with the products prods (u2 is the seeded admin), no
\* cart row yet.
StoreSeeded(prods) ==
    /\ profiles = [u \in Users |-> IF u = "u2" THEN "admin" ELSE "user"]
    /\ products = prods
    /\ usedProductIds = DOMAIN prods
    /\ cart_items = {}

NoOrders == orders = <<>> /\ order_items = {}

\* The browsers, with the users `who` signed in, their (empty) carts loaded
\* and their profiles held by the client; obs are the handlers observed.
Browsers(who, obs) ==
    /\ user = who
    /\ profile = [s \in Sessions |-> IF who[s] = "u2" THEN "admin"
                                    ELSE IF who[s] = NoUser THEN "none" ELSE "user"]
    /\ cartItems = [s \in Sessions |-> {}]
    /\ task = [s \in Sessions |-> Idle]
    /\ last = NoOutcome
    /\ observed = obs
    /\ modal = [s \in Sessions |-> ClosedModal]

\* Two browsers with one handler invocation in flight at a time in each: the
\* invocation slot s runs the handlers of browser s.
Clients(who, obs) ==
    /\ Browsers(who, obs)
    /\ provider = [s \in Sessions |-> s]
    /\ maxOrders = Cardinality(OrderIds)

\* One browser (s1) where u is signed in, and two invocations of its
\* handlers in flight at a time (two rapid clicks, or an effect and a
\* click): both slots run the handlers of browser s1, on its one in-memory
\* cart.  Checkouts are started until there are cap orders.
OneBrowser(u, obs, cap) ==
    /\ Browsers([s \in Sessions |-> IF s = "s1" THEN u ELSE NoUser], obs)
    /\ provider = [s \in Sessions |-> "s1"]
    /\ maxOrders = cap

\* Two of the seeded products, priced 1 and 2 cents for short.
Seeded == (1 :> 1) @@ (2 :> 2)

\* The back office (u2) signed in at session s2, the shopper's browser (s1)
\* just opened.
BackOffice == [s \in Sessions |-> IF s = "s2" THEN "u2" ELSE NoUser]
NobodySignedIn == [s \in Sessions |-> NoUser]

Init ==
    /\ StoreSeeded(Seeded)
    /\ NoOrders
    /\ Clients(BackOffice, {"checkout", "handleCheckout"})

\* ------------------------------------------------------------ auth context
\* Sign-in: the auth context holds the user and the user's profile; the
\* effect of CartProvider on [user] starts fetchCartItems.
Login(s, u) ==
    /\ task[s].pc = "idle"
    /\ user[provider[s]] = NoUser
    /\ user' = [user EXCEPT ![provider[s]] = u]
    /\ profile' = [profile EXCEPT ![provider[s]] = profiles[u]]
    /\ task' = [task EXCEPT ![s] = ToFetch([Idle EXCEPT !.op = "fetchCartItems", !.user = u, !.auth = u])]
    /\ Quiet
    /\ UNCHANGED <<storeVars, cartItems, observed, modal, provider, maxOrders>>

\* Sign-out: the effect of CartProvider on [user] empties the in-memory cart.
Logout(s) ==
    /\ task[s].pc = "idle"
    /\ user[provider[s]] # NoUser
    /\ user' = [user EXCEPT ![provider[s]] = NoUser]
    /\ profile' = [profile EXCEPT ![provider[s]] = "none"]
    /\ cartItems' = [cartItems EXCEPT ![provider[s]] = {}]
    /\ Quiet
    /\ UNCHANGED <<storeVars, task, observed, modal, provider, maxOrders>>

\* ---------------------------------------------------------- fetchCartItems
\* fetchCartItems without setCartItems(cartWithProducts).
FetchSettle_CartNotSet(s, cartRes, prodRes) ==
    IF cartRes.st = "error" \/ prodRes.st = "error"
    THEN /\ Return(s, task[s].toasts \cup {T_LoadFailed})
         /\ UNCHANGED cartItems
    ELSE /\ Return(s, task[s].toasts)
         /\ UNCHANGED cartItems

\* After Promise.all: an error of either read is caught inside
\* fetchCartItems (toast, cart left as it is); otherwise setCartItems(join).
\* The awaiting handler then returns.
FetchSettle(s, cartRes, prodRes) ==
    IF cartRes.st = "error" \/ prodRes.st = "error"
    THEN /\ Return(s, task[s].toasts \cup {T_LoadFailed})
         /\ UNCHANGED cartItems
    ELSE /\ Return(s, task[s].toasts)
         /\ cartItems' = [cartItems EXCEPT ![provider[s]] =
                            cartWithProducts(cartRes.rows, prodRes.prods)]

\* The cart read without .eq('user_id', user.id): every row the policies show.
FetchCartRead_NoUserFilter(s, ok) ==
    /\ task[s].pc = "fetch"
    /\ task[s].cartRes.st = "pending"
    /\ LET res == IF ok
                  THEN CartRead(CartRowsVisible(task[s].auth))
                  ELSE Failed
       IN  IF task[s].prodRes.st = "pending"
           THEN /\ task' = [task EXCEPT ![s].cartRes = res]
                /\ Quiet
                /\ UNCHANGED cartItems
           ELSE FetchSettle(s, res, task[s].prodRes)
    /\ UNCHANGED <<storeVars, user, profile, observed, modal, provider, maxOrders>>

\* supabase.from('cart_items').select('*').eq('user_id', user.id); when the
\* products read has been answered already, the handler goes on.
FetchCartRead(s, ok) ==
    /\ task[s].pc = "fetch"
    /\ task[s].cartRes.st = "pending"
    /\ LET res == IF ok
                  THEN CartRead({r \in CartRowsVisible(task[s].auth) :
                                     r.user_id = task[s].user})
                  ELSE Failed
       IN  IF task[s].prodRes.st = "pending"
           THEN /\ task' = [task EXCEPT ![s].cartRes = res]
                /\ Quiet
                /\ UNCHANGED cartItems
           ELSE FetchSettle(s, res, task[s].prodRes)
    /\ UNCHANGED <<storeVars, user, profile, observed, modal, provider, maxOrders>>

\* supabase.from('products').select('*'); when the cart_items read has been
\* answered already, the handler goes on.
FetchProductsRead(s, ok) ==
    /\ task[s].pc = "fetch"
    /\ task[s].prodRes.st = "pending"
    /\ LET res == IF ok THEN ProductsRead(products) ELSE Failed
       IN  IF task[s].cartRes.st = "pending"
           THEN /\ task' = [task EXCEPT ![s].prodRes = res]
                /\ Quiet
                /\ UNCHANGED cartItems
           ELSE FetchSettle(s, task[s].cartRes, res)
    /\ UNCHANGED <<storeVars, user, profile, observed, modal, provider, maxOrders>>

\* --------------------------------------------------------------- addToCart
\* addToCart without the test `if (!user)`.
AddToCart_NoLoginTest(s, p, ok) ==
    /\ task[s].pc = "idle"
    /\ p \in usedProductIds
    /\ \A r \in cart_items :
          r.user_id = user[provider[s]] /\ r.product_id = p => r.quantity < MaxQty
    /\ IF FALSE
       THEN ReturnAtOnce(s, "addToCart", p, 0, {T_LoginToAdd})
       ELSE LET rows == {r \in CartRowsVisible(user[provider[s]]) :
                             r.user_id = user[provider[s]] /\ r.product_id = p}
                existingItem == IF ok /\ Cardinality(rows) = 1
                                THEN CHOOSE r \in rows : TRUE
                                ELSE NoRow
            IN  Call(s, "addToCart", p, 0,
                     [Start(s, "addToCart", "add_write") EXCEPT
                         !.pid = p, !.existing = existingItem, !.lookupError = ~ok])
    /\ UNCHANGED <<storeVars, user, profile, cartItems, observed, modal, provider, maxOrders>>

\* Home.handleAddToCart -> addToCart(product), up to the answer of the lookup
\* of the existing line.  .single() yields data = null unless exactly one
\* row matches, and the lookup's error is not read: a failed lookup leaves
\* existingItem null as well.
AddToCart(s, p, ok) ==
    /\ task[s].pc = "idle"
    /\ p \in usedProductIds
    /\ \A r \in cart_items :
          r.user_id = user[provider[s]] /\ r.product_id = p => r.quantity < MaxQty
    /\ IF user[provider[s]] = NoUser
       THEN ReturnAtOnce(s, "addToCart", p, 0, {T_LoginToAdd})
       ELSE LET rows == {r \in CartRowsVisible(user[provider[s]]) :
                             r.user_id = user[provider[s]] /\ r.product_id = p}
                existingItem == IF ok /\ Cardinality(rows) = 1
                                THEN CHOOSE r \in rows : TRUE
                                ELSE NoRow
            IN  Call(s, "addToCart", p, 0,
                     [Start(s, "addToCart", "add_write") EXCEPT
                         !.pid = p, !.existing = existingItem, !.lookupError = ~ok])
    /\ UNCHANGED <<storeVars, user, profile, cartItems, observed, modal, provider, maxOrders>>

\* Home.handleAddToCart: its own test of user, then `await
\* addToCart(product)` up to the answer of the lookup; what follows the await
\* is in AfterAwait.
HandleAddToCart(s, p, ok) ==
    /\ task[s].pc = "idle"
    /\ p \in usedProductIds
    /\ \A r \in cart_items :
          r.user_id = user[provider[s]] /\ r.product_id = p => r.quantity < MaxQty
    /\ IF user[provider[s]] = NoUser
       THEN ReturnAtOnce(s, "handleAddToCart", p, 0, {T_LoginToAdd})
       ELSE LET rows == {r \in CartRowsVisible(user[provider[s]]) :
                             r.user_id = user[provider[s]] /\ r.product_id = p}
                existingItem == IF ok /\ Cardinality(rows) = 1
                                THEN CHOOSE r \in rows : TRUE
                                ELSE NoRow
            IN  Call(s, "handleAddToCart", p, 0,
                     [Start(s, "handleAddToCart", "add_write") EXCEPT
                         !.pid = p, !.existing = existingItem, !.lookupError = ~ok])
    /\ UNCHANGED <<storeVars, user, profile, cartItems, observed, modal, provider, maxOrders>>

\* The update of addToCart as an increment made by the store
\* (quantity = quantity + 1) instead of a value computed from the row read.
AddUpdateRows_StoreIncrement(uid, existingItem) ==
    {IF r.id = existingItem.id /\ r.user_id = uid
     THEN [r EXCEPT !.quantity = r.quantity + 1]
     ELSE r : r \in cart_items}

\* The update of addToCart writing 1 instead of existingItem.quantity + 1.
AddUpdateRows_NoIncrement(uid, existingItem) ==
    {IF r.id = existingItem.id /\ r.user_id = uid
     THEN [r EXCEPT !.quantity = 1]
     ELSE r : r \in cart_items}

\* update({quantity: existingItem.quantity + 1}).eq('id', existingItem.id)
AddUpdateRows(uid, existingItem) ==
    {IF r.id = existingItem.id /\ r.user_id = uid
     THEN [r EXCEPT !.quantity = existingItem.quantity + 1]
     ELSE r : r \in cart_items}

\* insert({user_id, product_id, quantity: 1})
AddInsertRow(uid, p) ==
    [id |-> FreshCartId(uid, p), user_id |-> uid, product_id |-> p, quantity |-> 1]

\* The write of addToCart: the update of the line found, or the insert of a
\* new line; an error goes to the catch (toast), success to fetchCartItems.
AddWrite(s, ok) ==
    /\ task[s].pc = "add_write"
    /\ LET t == task[s]
           accepted == IF t.existing # NoRow
                       THEN ok
                       ELSE ok /\ CartInsertAccepted(t.auth, AddInsertRow(t.user, t.pid))
       IN  IF accepted
           THEN /\ cart_items' = IF t.existing # NoRow
                                 THEN AddUpdateRows(t.auth, t.existing)
                                 ELSE cart_items \cup {AddInsertRow(t.user, t.pid)}
                /\ task' = [task EXCEPT ![s] = ToFetch(Signed(s, t))]
                /\ Quiet
           ELSE /\ Return(s, t.toasts \cup {T_AddFailed})
                /\ UNCHANGED cart_items
    /\ UNCHANGED <<profiles, products, usedProductIds, orders, order_items,
                   user, profile, cartItems, observed, modal, provider, maxOrders>>

\* ---------------------------------------------- removeFromCart, updateQuantity
\* The delete of removeFromCart without .eq('product_id', productId).
RemoveRows_AllOfUser(uid, p) == {r \in cart_items : ~(r.user_id = uid)}

\* delete().eq('user_id', user.id).eq('product_id', productId)
RemoveRows(uid, p) == {r \in cart_items : ~(r.user_id = uid /\ r.product_id = p)}

\* The body of removeFromCart, run for handler `op`.
removeFromCart(s, op, p, q, ok) ==
    IF user[provider[s]] = NoUser
    THEN /\ ReturnAtOnce(s, op, p, q, {})
         /\ UNCHANGED cart_items
    ELSE IF ok
    THEN /\ cart_items' = RemoveRows(user[provider[s]], p)
         /\ Call(s, op, p, q, ToFetch(Start(s, op, "fetch")))
    ELSE /\ ReturnAtOnce(s, op, p, q, {T_RemoveFailed})
         /\ UNCHANGED cart_items

RemoveFromCart(s, p, ok) ==
    /\ task[s].pc = "idle"
    /\ p \in usedProductIds
    /\ removeFromCart(s, "removeFromCart", p, 0, ok)
    /\ UNCHANGED <<profiles, products, usedProductIds, orders, order_items,
                   user, profile, cartItems, observed, modal, provider, maxOrders>>

\* update({quantity}).eq('user_id', user.id).eq('product_id', productId)
UpdateRows(uid, p, q) ==
    {IF r.user_id = uid /\ r.product_id = p THEN [r EXCEPT !.quantity = q] ELSE r :
        r \in cart_items}

\* updateQuantity with the test `quantity < 0`: a quantity of 0 is written.
updateQuantity_ZeroWritten(s, p, q, ok) ==
    IF user[provider[s]] = NoUser
    THEN /\ ReturnAtOnce(s, "updateQuantity", p, q, {})
         /\ UNCHANGED cart_items
    ELSE IF q < 0
    THEN removeFromCart(s, "updateQuantity", p, q, ok)
    ELSE IF ok
    THEN /\ cart_items' = UpdateRows(user[provider[s]], p, q)
         /\ Call(s, "updateQuantity", p, q, ToFetch(Start(s, "updateQuantity", "fetch")))
    ELSE /\ ReturnAtOnce(s, "updateQuantity", p, q, {T_UpdateFailed})
         /\ UNCHANGED cart_items

\* updateQuantity keeping a line at quantity 1 when asked for less.
updateQuantity_Clamped(s, p, q, ok) ==
    IF user[provider[s]] = NoUser
    THEN /\ ReturnAtOnce(s, "updateQuantity", p, q, {})
         /\ UNCHANGED cart_items
    ELSE IF ok
    THEN /\ cart_items' = UpdateRows(user[provider[s]], p, IF q <= 0 THEN 1 ELSE q)
         /\ Call(s, "updateQuantity", p, q, ToFetch(Start(s, "updateQuantity", "fetch")))
    ELSE /\ ReturnAtOnce(s, "updateQuantity", p, q, {T_UpdateFailed})
         /\ UNCHANGED cart_items

\* if (quantity <= 0) { await removeFromCart(productId); return; }
updateQuantity(s, p, q, ok) ==
    IF user[provider[s]] = NoUser
    THEN /\ ReturnAtOnce(s, "updateQuantity", p, q, {})
         /\ UNCHANGED cart_items
    ELSE IF q <= 0
    THEN removeFromCart(s, "updateQuantity", p, q, ok)
    ELSE IF ok
    THEN /\ cart_items' = UpdateRows(user[provider[s]], p, q)
         /\ Call(s, "updateQuantity", p, q, ToFetch(Start(s, "updateQuantity", "fetch")))
    ELSE /\ ReturnAtOnce(s, "updateQuantity", p, q, {T_UpdateFailed})
         /\ UNCHANGED cart_items

UpdateQuantity(s, p, q, ok) ==
    /\ task[s].pc = "idle"
    /\ p \in usedProductIds
    /\ updateQuantity(s, p, q, ok)
    /\ UNCHANGED <<profiles, products, usedProductIds, orders, order_items,
                   user, profile, cartItems, observed, modal, provider, maxOrders>>

\* --------------------------------------------------------------- clearCart
\* delete().eq('user_id', user.id)
ClearRows(uid) == {r \in cart_items : r.user_id # uid}

\* clearCart: the delete, then setCartItems([]); an error goes to the catch
\* (toast) and the in-memory cart stays.
ClearCart(s, ok) ==
    /\ task[s].pc = "idle"
    /\ IF user[provider[s]] = NoUser
       THEN /\ ReturnAtOnce(s, "clearCart", 0, 0, {})
            /\ UNCHANGED <<cart_items, cartItems>>
       ELSE IF ok
       THEN /\ cart_items' = ClearRows(user[provider[s]])
            /\ cartItems' = [cartItems EXCEPT ![provider[s]] = {}]
            /\ ReturnAtOnce(s, "clearCart", 0, 0, {})
       ELSE /\ ReturnAtOnce(s, "clearCart", 0, 0, {T_ClearFailed})
            /\ UNCHANGED <<cart_items, cartItems>>
    /\ UNCHANGED <<profiles, products, usedProductIds, orders, order_items,
                   user, profile, observed, modal, provider, maxOrders>>

\* ---------------------------------------------------------------- checkout
\* orderItems with the quantity of the line dropped.
orderItems_QuantityOne(order, items) ==
    {[order_id |-> order, product_id |-> item.product_id,
      quantity |-> 1, price |-> item.price] : item \in items}

\* The rows checkout inserts into order_items, one per in-memory line.
orderItems(order, items) ==
    {[order_id |-> order, product_id |-> item.product_id,
      quantity |-> item.quantity, price |-> item.price] : item \in items}

\* INSERT INTO order_items: every row needs its product (foreign key) and an
\* order of the caller (insert policy); one statement, all rows or none.
OrderItemsAccepted(uid, rows) ==
    \A r \in rows :
        /\ r.product_id \in DOMAIN products
        /\ r.order_id \in DOMAIN orders
        /\ orders[r.order_id].user_id = uid

\* checkout without the test of cartItems.length.
checkout_NoEmptyTest(s, ok) ==
    IF user[provider[s]] = NoUser
    THEN /\ ReturnAtOnce(s, "checkout", 0, 0, {T_CartEmpty})
         /\ UNCHANGED orders
    ELSE IF ok
    THEN /\ orders' = Append(orders, [user_id |-> user[provider[s]],
                                      total_amount |-> getCartTotal(cartItems[provider[s]]),
                                      status |-> "pending"])
         /\ Call(s, "checkout", 0, 0,
                 [Start(s, "checkout", "co_items") EXCEPT
                     !.items = cartItems[provider[s]], !.order = Len(orders) + 1])
    ELSE /\ ReturnAtOnce(s, "checkout", 0, 0, {T_CheckoutFailed})
         /\ UNCHANGED orders

\* checkout(), up to the answer of the insert into orders.
checkout(s, ok) ==
    IF user[provider[s]] = NoUser \/ cartItems[provider[s]] = {}
    THEN /\ ReturnAtOnce(s, "checkout", 0, 0, {T_CartEmpty})
         /\ UNCHANGED orders
    ELSE IF ok
    THEN /\ orders' = Append(orders, [user_id |-> user[provider[s]],
                                      total_amount |-> getCartTotal(cartItems[provider[s]]),
                                      status |-> "pending"])
         /\ Call(s, "checkout", 0, 0,
                 [Start(s, "checkout", "co_items") EXCEPT
                     !.items = cartItems[provider[s]], !.order = Len(orders) + 1])
    ELSE /\ ReturnAtOnce(s, "checkout", 0, 0, {T_CheckoutFailed})
         /\ UNCHANGED orders

\* The context's checkout called directly.
Checkout(s, ok) ==
    /\ task[s].pc = "idle"
    /\ Len(orders) < maxOrders
    /\ checkout(s, ok)
    /\ UNCHANGED <<profiles, products, usedProductIds, cart_items, order_items,
                   user, profile, cartItems, observed, modal, provider, maxOrders>>

\* Cart.handleCheckout: its own two guards, then checkout().
HandleCheckout(s, ok) ==
    /\ task[s].pc = "idle"
    /\ Len(orders) < maxOrders
    /\ IF user[provider[s]] = NoUser
       THEN /\ ReturnAtOnce(s, "handleCheckout", 0, 0, {T_LoginToCheckout})
            /\ UNCHANGED orders
       ELSE IF cartItems[provider[s]] = {}
       THEN /\ ReturnAtOnce(s, "handleCheckout", 0, 0, {T_YourCartEmpty})
            /\ UNCHANGED orders
       ELSE checkout(s, ok)
    /\ UNCHANGED <<profiles, products, usedProductIds, cart_items, order_items,
                   user, profile, cartItems, observed, modal, provider, maxOrders>>

\* CheckoutItems with a compensating delete of the order whose lines were
\* refused.
CheckoutItems_Compensating(s, ok) ==
    /\ task[s].pc = "co_items"
    /\ LET t == task[s]
           rows == orderItems(t.order, t.items)
       IN  IF ok /\ OrderItemsAccepted(t.auth, rows)
           THEN /\ order_items' = order_items \cup rows
                /\ task' = [task EXCEPT ![s] = [Signed(s, t) EXCEPT !.pc = "co_clear"]]
                /\ Quiet
           ELSE /\ Return(s, t.toasts \cup {T_CheckoutFailed})
                /\ UNCHANGED order_items
    /\ orders' = IF task'[s].pc = "idle" /\ task[s].order = Len(orders)
                 THEN SubSeq(orders, 1, Len(orders) - 1)
                 ELSE orders
    /\ UNCHANGED <<profiles, products, usedProductIds, cart_items,
                   user, profile, cartItems, observed, modal, provider, maxOrders>>

\* insert(orderItems) into order_items; an error goes to the catch.
CheckoutItems(s, ok) ==
    /\ task[s].pc = "co_items"
    /\ LET t == task[s]
           rows == orderItems(t.order, t.items)
       IN  IF ok /\ OrderItemsAccepted(t.auth, rows)
           THEN /\ order_items' = order_items \cup rows
                /\ task' = [task EXCEPT ![s] = [Signed(s, t) EXCEPT !.pc = "co_clear"]]
                /\ Quiet
           ELSE /\ Return(s, t.toasts \cup {T_CheckoutFailed})
                /\ UNCHANGED order_items
    /\ UNCHANGED <<profiles, products, usedProductIds, cart_items, orders,
                   user, profile, cartItems, observed, modal, provider, maxOrders>>

\* await clearCart(): the delete and setCartItems([]); clearCart catches
\* its own error (toast, in-memory cart left as it is) and checkout goes on
\* either way to toast.success('Order placed successfully!').
CheckoutClear(s, ok) ==
    /\ task[s].pc = "co_clear"
    /\ IF ok
       THEN /\ cart_items' = IF task[s].auth = task[s].user
                             THEN ClearRows(task[s].user)
                             ELSE cart_items
            /\ cartItems' = [cartItems EXCEPT ![provider[s]] = {}]
            /\ Return(s, task[s].toasts \cup {T_OrderPlaced})
       ELSE /\ Return(s, task[s].toasts \cup {T_ClearFailed, T_OrderPlaced})
            /\ UNCHANGED <<cart_items, cartItems>>
    /\ UNCHANGED <<profiles, products, usedProductIds, orders, order_items,
                   user, profile, observed, modal, provider, maxOrders>>

\* --------------------------------------------------------- admin dashboard
\* The dashboard renders its handlers only for a client-side profile whose
\* role is 'admin'.
DashboardShown(s) == user[provider[s]] # NoUser /\ profile[provider[s]] = "admin"

\* uuid_generate_v4() for a products row.
FreshProductId == CHOOSE i \in ProductIds \ usedProductIds :
                      \A j \in ProductIds \ usedProductIds : i <= j

\* handleProductSubmit with the test `price < 0`.
handleProductSubmit_ZeroPriceAccepted(s, editing, nameEmpty, price, categoryEmpty, ok) ==
    IF nameEmpty
    THEN /\ ReturnAtOnce(s, "handleProductSubmit", editing, 0, {T_NameRequired})
         /\ UNCHANGED <<products, usedProductIds, modal>>
    ELSE IF price < 0
    THEN /\ ReturnAtOnce(s, "handleProductSubmit", editing, 0, {T_PriceRequired})
         /\ UNCHANGED <<products, usedProductIds, modal>>
    ELSE IF categoryEmpty
    THEN /\ ReturnAtOnce(s, "handleProductSubmit", editing, 0, {T_CategoryRequired})
         /\ UNCHANGED <<products, usedProductIds, modal>>
    ELSE IF editing # 0
    THEN IF ok
         THEN /\ products' = IF is_admin(user[provider[s]]) /\ editing \in DOMAIN products
                             THEN [products EXCEPT ![editing] = price]
                             ELSE products
              /\ ReturnAtOnce(s, "handleProductSubmit", editing, 0, {T_ProductUpdated})
              /\ UNCHANGED usedProductIds
              /\ modal' = [modal EXCEPT ![provider[s]] = ClosedModal]
         ELSE /\ ReturnAtOnce(s, "handleProductSubmit", editing, 0, {T_StoreError})
              /\ UNCHANGED <<products, usedProductIds, modal>>
    ELSE IF ok /\ is_admin(user[provider[s]])
    THEN /\ products' = (FreshProductId :> price) @@ products
         /\ usedProductIds' = usedProductIds \cup {FreshProductId}
         /\ ReturnAtOnce(s, "handleProductSubmit", editing, 0, {T_ProductCreated})
         /\ modal' = [modal EXCEPT ![provider[s]] = ClosedModal]
    ELSE /\ ReturnAtOnce(s, "handleProductSubmit", editing, 0, {T_StoreError})
         /\ UNCHANGED <<products, usedProductIds, modal>>

\* handleProductSubmit: the three checks of the form, then the update of
\* editingProduct (editing # 0) or the insert of a new product.  The update
\* policy (USING is_admin()) hides the rows from other callers: the update
\* then changes no row and returns no error.  The insert policy
\* (WITH CHECK is_admin()) returns an error.  Success resets the form and
\* closes the modal; every other outcome leaves them as they are.
handleProductSubmit(s, editing, nameEmpty, price, categoryEmpty, ok) ==
    IF nameEmpty
    THEN /\ ReturnAtOnce(s, "handleProductSubmit", editing, 0, {T_NameRequired})
         /\ UNCHANGED <<products, usedProductIds, modal>>
    ELSE IF price <= 0
    THEN /\ ReturnAtOnce(s, "handleProductSubmit", editing, 0, {T_PriceRequired})
         /\ UNCHANGED <<products, usedProductIds, modal>>
    ELSE IF categoryEmpty
    THEN /\ ReturnAtOnce(s, "handleProductSubmit", editing, 0, {T_CategoryRequired})
         /\ UNCHANGED <<products, usedProductIds, modal>>
    ELSE IF editing # 0
    THEN IF ok
         THEN /\ products' = IF is_admin(user[provider[s]]) /\ editing \in DOMAIN products
                             THEN [products EXCEPT ![editing] = price]
                             ELSE products
              /\ ReturnAtOnce(s, "handleProductSubmit", editing, 0, {T_ProductUpdated})
              /\ UNCHANGED usedProductIds
              /\ modal' = [modal EXCEPT ![provider[s]] = ClosedModal]
         ELSE /\ ReturnAtOnce(s, "handleProductSubmit", editing, 0, {T_StoreError})
              /\ UNCHANGED <<products, usedProductIds, modal>>
    ELSE IF ok /\ is_admin(user[provider[s]])
    THEN /\ products' = (FreshProductId :> price) @@ products
         /\ usedProductIds' = usedProductIds \cup {FreshProductId}
         /\ ReturnAtOnce(s, "handleProductSubmit", editing, 0, {T_ProductCreated})
         /\ modal' = [modal EXCEPT ![provider[s]] = ClosedModal]
    ELSE /\ ReturnAtOnce(s, "handleProductSubmit", editing, 0, {T_StoreError})
         /\ UNCHANGED <<products, usedProductIds, modal>>

\* The admin opens the modal (for product `editing`, or for a new product),
\* fills in the form and submits it, and closes the modal again when the
\* submit is refused, all before anyone else takes a step.
HandleProductSubmit(s, editing, nameEmpty, price, categoryEmpty, ok) ==
    /\ task[s].pc = "idle"
    /\ DashboardShown(s)
    /\ modal[provider[s]] = ClosedModal
    /\ editing \in {0} \cup usedProductIds
    /\ editing = 0 => usedProductIds # ProductIds
    /\ handleProductSubmit(s, editing, nameEmpty, price, categoryEmpty, ok)
    /\ UNCHANGED <<profiles, cart_items, orders, order_items, user, profile, cartItems, observed, provider, maxOrders>>

\* The form's onSubmit: handleProductSubmit on the modal as it stands.
SubmitProductForm(s, ok) ==
    /\ task[s].pc = "idle"
    /\ DashboardShown(s)
    /\ modal[provider[s]].show
    /\ modal[provider[s]].editing = 0 => usedProductIds # ProductIds
    /\ handleProductSubmit(s, modal[provider[s]].editing, modal[provider[s]].form.nameEmpty,
                           modal[provider[s]].form.price, modal[provider[s]].form.categoryEmpty, ok)
    /\ UNCHANGED <<profiles, cart_items, orders, order_items, user, profile, cartItems, observed, provider, maxOrders>>

\* The 'Add Product' button: setShowProductModal(true).
OpenProductModal(s) ==
    /\ DashboardShown(s)
    /\ ~modal[provider[s]].show
    /\ modal' = [modal EXCEPT ![provider[s]].show = TRUE]
    /\ Quiet
    /\ UNCHANGED <<storeVars, user, profile, cartItems, task, observed, provider, maxOrders>>

\* handleEditProduct(product): the modal opens on a product of the dashboard's
\* list, the form filled from it (price as the list holds it).
HandleEditProduct(s, id, price) ==
    /\ DashboardShown(s)
    /\ ~modal[provider[s]].show
    /\ id \in usedProductIds
    /\ modal' = [modal EXCEPT ![provider[s]] =
                    [show |-> TRUE, editing |-> id,
                     form |-> [nameEmpty |-> FALSE, price |-> price, categoryEmpty |-> FALSE]]]
    /\ Quiet
    /\ UNCHANGED <<storeVars, user, profile, cartItems, task, observed, provider, maxOrders>>

\* The onChange handlers of the form's inputs, up to the next submit.
SetProductForm(s, f) ==
    /\ DashboardShown(s)
    /\ modal[provider[s]].show
    /\ f # modal[provider[s]].form
    /\ modal' = [modal EXCEPT ![provider[s]].form = f]
    /\ Quiet
    /\ UNCHANGED <<storeVars, user, profile, cartItems, task, observed, provider, maxOrders>>

\* closeModal
CloseModal(s) ==
    /\ DashboardShown(s)
    /\ modal[provider[s]].show
    /\ modal' = [modal EXCEPT ![provider[s]] = ClosedModal]
    /\ Quiet
    /\ UNCHANGED <<storeVars, user, profile, cartItems, task, observed, provider, maxOrders>>

\* handleDeleteProduct (confirmed): delete().eq('id', id).  The delete
\* policy (USING is_admin()) hides the rows from other callers.
handleDeleteProduct(s, id, ok) ==
    IF ok
    THEN /\ IF is_admin(user[provider[s]]) /\ id \in DOMAIN products
            THEN /\ products' = [p \in DOMAIN products \ {id} |-> products[p]]
                 /\ cart_items' = CascadeCart(id)
                 /\ order_items' = CascadeOrderItems(id)
            ELSE UNCHANGED <<products, cart_items, order_items>>
         /\ ReturnAtOnce(s, "handleDeleteProduct", id, 0, {T_ProductDeleted})
    ELSE /\ ReturnAtOnce(s, "handleDeleteProduct", id, 0, {T_StoreError})
         /\ UNCHANGED <<products, cart_items, order_items>>

HandleDeleteProduct(s, id, ok) ==
    /\ task[s].pc = "idle"
    /\ DashboardShown(s)
    /\ id \in usedProductIds
    /\ handleDeleteProduct(s, id, ok)
    /\ UNCHANGED <<profiles, usedProductIds, orders, user, profile, cartItems, observed, modal, provider, maxOrders>>

\* handleUpdateOrderStatus never setting an order back to pending.
handleUpdateOrderStatus_NoWayBack(s, orderId, newStatus, ok) ==
    IF ok
    THEN /\ orders' = IF is_admin(user[provider[s]])
                         /\ newStatus # "pending"
                      THEN [orders EXCEPT ![orderId].status = newStatus]
                      ELSE orders
         /\ ReturnAtOnce(s, "handleUpdateOrderStatus", orderId, 0, {T_StatusUpdated})
    ELSE /\ ReturnAtOnce(s, "handleUpdateOrderStatus", orderId, 0, {T_StoreError})
         /\ UNCHANGED orders

\* handleUpdateOrderStatus: update({status: newStatus}).eq('id', orderId).
\* The update policy (USING is_admin()) hides the rows from other callers.
handleUpdateOrderStatus(s, orderId, newStatus, ok) ==
    IF ok
    THEN /\ orders' = IF is_admin(user[provider[s]])
                      THEN [orders EXCEPT ![orderId].status = newStatus]
                      ELSE orders
         /\ ReturnAtOnce(s, "handleUpdateOrderStatus", orderId, 0, {T_StatusUpdated})
    ELSE /\ ReturnAtOnce(s, "handleUpdateOrderStatus", orderId, 0, {T_StoreError})
         /\ UNCHANGED orders

HandleUpdateOrderStatus(s, orderId, newStatus, ok) ==
    /\ task[s].pc = "idle"
    /\ DashboardShown(s)
    /\ orderId \in DOMAIN orders
    /\ handleUpdateOrderStatus(s, orderId, newStatus, ok)
    /\ UNCHANGED <<profiles, products, usedProductIds, cart_items, order_items,
                   user, profile, cartItems, observed, modal, provider, maxOrders>>

\* ----------------------------------------------------------------- profiles
\* UPDATE profiles SET role = ... WHERE id = uid, sent by caller: the update
\* policies reach the caller's own row, and every row for an admin; no
\* policy or trigger restricts the column written.  When observed, `last`
\* names the caller in its field session.
UpdateProfile(caller, uid, role) ==
    /\ caller = uid \/ is_admin(caller)
    /\ profiles[uid] # role
    /\ profiles' = [profiles EXCEPT ![uid] = role]
    /\ last' = Outcome(caller, "updateProfile", "return", 0, 0, {})
    /\ UNCHANGED <<products, usedProductIds, cart_items, orders, order_items,
                   user, profile, cartItems, task, observed, modal, provider, maxOrders>>

\* ------------------------------------------------------------ specification

\* The shopper (u1, at session s1) using every cart operation and checking
\* out, while the back office (at session s2) deletes products; every store
\* call is free to fail.
Next ==
    \E ok \in BOOLEAN :
        \/ Login("s1", "u1")
        \/ Logout("s1")
        \/ FetchCartRead("s1", ok)
        \/ FetchProductsRead("s1", ok)
        \/ \E p \in ProductIds : AddToCart("s1", p, ok)
        \/ AddWrite("s1", ok)
        \/ \E p \in ProductIds : RemoveFromCart("s1", p, ok)
        \/ \E p \in ProductIds, q \in QtyArgs : UpdateQuantity("s1", p, q, ok)
        \/ ClearCart("s1", ok)
        \/ Checkout("s1", ok)
        \/ HandleCheckout("s1", ok)
        \/ CheckoutItems("s1", ok)
        \/ CheckoutClear("s1", ok)
        \/ \E id \in ProductIds : HandleDeleteProduct("s2", id, ok)

Spec == Init /\ [][Next]_vars

\* The shopper alone, using every cart operation, while the back office
\* edits the products; calls of updateQuantity are observed.
InitCart ==
    /\ StoreSeeded(Seeded)
    /\ NoOrders
    /\ Clients(BackOffice, {"updateQuantity", "removeFromCart"})

NextCart ==
    \E ok \in BOOLEAN :
        \/ Login("s1", "u1")
        \/ Logout("s1")
        \/ FetchCartRead("s1", ok)
        \/ FetchProductsRead("s1", ok)
        \/ \E p \in ProductIds : AddToCart("s1", p, ok)
        \/ AddWrite("s1", ok)
        \/ \E p \in ProductIds : RemoveFromCart("s1", p, ok)
        \/ \E p \in ProductIds, q \in QtyArgs : UpdateQuantity("s1", p, q, ok)
        \/ ClearCart("s1", ok)
        \/ \E id \in ProductIds, f \in ValidForms :
              HandleProductSubmit("s2", id, f.nameEmpty, f.price, f.categoryEmpty, ok)

SpecCart == InitCart /\ [][NextCart]_vars

\* Two browsers (s1, s2) of the same user, who adds and removes the one
\* seeded product in both.
InitShoppers ==
    /\ StoreSeeded((1 :> 1))
    /\ NoOrders
    /\ Clients(NobodySignedIn, {"addToCart"})

NextShoppers ==
    \E s \in Sessions, ok \in BOOLEAN :
        \/ Login(s, "u1")
        \/ Logout(s)
        \/ FetchCartRead(s, ok)
        \/ FetchProductsRead(s, ok)
        \/ \E p \in ProductIds : AddToCart(s, p, ok)
        \/ AddWrite(s, ok)
        \/ \E p \in ProductIds : RemoveFromCart(s, p, ok)

SpecShoppers == InitShoppers /\ [][NextShoppers]_vars

\* Two users at their own browsers, the shopper u1 at s1 and the admin u2
\* (who may read every cart row) at s2, both filling and emptying a cart of
\* the one seeded product.
CartOps == {"addToCart", "removeFromCart", "updateQuantity", "clearCart"}

BothSignedIn == [s \in Sessions |-> IF s = "s1" THEN "u1" ELSE "u2"]

InitTwoUsers ==
    /\ StoreSeeded((1 :> 1))
    /\ NoOrders
    /\ Clients(BothSignedIn, CartOps)

NextTwoUsers ==
    \E s \in Sessions, ok \in BOOLEAN :
        \/ FetchCartRead(s, ok)
        \/ FetchProductsRead(s, ok)
        \/ \E p \in ProductIds : AddToCart(s, p, ok)
        \/ AddWrite(s, ok)
        \/ \E p \in ProductIds : RemoveFromCart(s, p, ok)
        \/ \E p \in ProductIds, q \in QtyArgs : UpdateQuantity(s, p, q, ok)
        \/ ClearCart(s, ok)

SpecTwoUsers == InitTwoUsers /\ [][NextTwoUsers]_vars

\* The shopper u1 filling, reloading and emptying a cart of the two seeded
\* products while the back office deletes products.
InitReload ==
    /\ StoreSeeded(Seeded)
    /\ NoOrders
    /\ Clients(BothSignedIn, {"addToCart", "removeFromCart", "clearCart"})

NextReload ==
    \E ok \in BOOLEAN :
        \/ FetchCartRead("s1", ok)
        \/ FetchProductsRead("s1", ok)
        \/ \E p \in ProductIds : AddToCart("s1", p, ok)
        \/ AddWrite("s1", ok)
        \/ \E p \in ProductIds : RemoveFromCart("s1", p, ok)
        \/ ClearCart("s1", ok)
        \/ \E id \in ProductIds : HandleDeleteProduct("s2", id, ok)

SpecReload == InitReload /\ [][NextReload]_vars

\* One browser of u1, who clicks 'Add to Cart' on the one seeded product, a
\* second click coming before the first has been dealt with.
InitClicks ==
    /\ StoreSeeded((1 :> 1))
    /\ NoOrders
    /\ OneBrowser("u1", {"addToCart"}, 0)

NextClicks ==
    \E s \in Sessions, ok \in BOOLEAN :
        \/ FetchCartRead(s, ok)
        \/ FetchProductsRead(s, ok)
        \/ \E p \in ProductIds : AddToCart(s, p, ok)
        \/ AddWrite(s, ok)
        \/ \E p \in ProductIds : RemoveFromCart(s, p, ok)

SpecClicks == InitClicks /\ [][NextClicks]_vars

\* One browser of u1, who puts the one seeded product in the cart and clicks
\* 'Proceed to Checkout', a second click coming before the first has been
\* dealt with: one checkout can be started per invocation slot.
InitDoubleClick ==
    /\ StoreSeeded((1 :> 1))
    /\ NoOrders
    /\ OneBrowser("u1", {"checkout", "handleCheckout"}, Cardinality(Sessions))

NextDoubleClick ==
    \E s \in Sessions, ok \in BOOLEAN :
        \/ FetchCartRead(s, ok)
        \/ FetchProductsRead(s, ok)
        \/ \E p \in ProductIds : AddToCart("s1", p, ok)
        \/ AddWrite(s, ok)
        \/ HandleCheckout(s, ok)
        \/ CheckoutItems(s, ok)
        \/ CheckoutClear(s, ok)

SpecDoubleClick == InitDoubleClick /\ [][NextDoubleClick]_vars

\* The shopper u1 at the home page, clicking 'Add to Cart' on the two seeded
\* products (and removing them again in the cart page).
InitHome ==
    /\ StoreSeeded(Seeded)
    /\ NoOrders
    /\ Clients(BothSignedIn, {"handleAddToCart"})

NextHome ==
    \E ok \in BOOLEAN :
        \/ FetchCartRead("s1", ok)
        \/ FetchProductsRead("s1", ok)
        \/ \E p \in ProductIds : HandleAddToCart("s1", p, ok)
        \/ AddWrite("s1", ok)
        \/ \E p \in ProductIds : RemoveFromCart("s1", p, ok)

SpecHome == InitHome /\ [][NextHome]_vars

\* Two browsers of u1: in the first u1 puts product 1 in the cart and checks
\* out, in the second u1 adds product 2 to the same store cart.
BothU1 == [s \in Sessions |-> "u1"]

InitTwoBrowsers ==
    /\ StoreSeeded(Seeded)
    /\ NoOrders
    /\ Clients(BothU1, {"checkout"})

NextTwoBrowsers ==
    \E s \in Sessions, ok \in BOOLEAN :
        \/ FetchCartRead(s, ok)
        \/ FetchProductsRead(s, ok)
        \/ AddToCart("s1", 1, ok)
        \/ AddToCart("s2", 2, ok)
        \/ AddWrite(s, ok)
        \/ Checkout("s1", ok)
        \/ CheckoutItems("s1", ok)
        \/ CheckoutClear("s1", ok)

SpecTwoBrowsers == InitTwoBrowsers /\ [][NextTwoBrowsers]_vars

\* One browser, nobody signed in at first, where u1 and u2 sign in and out
\* and add the one seeded product to their carts; a sign-in or sign-out can
\* come while a reload of the cart is still in flight.
InitSignOut ==
    /\ StoreSeeded((1 :> 1))
    /\ NoOrders
    /\ OneBrowser(NoUser, {"addToCart"}, 0)

NextSignOut ==
    \E s \in Sessions, ok \in BOOLEAN :
        \/ \E u \in Users : Login(s, u)
        \/ Logout(s)
        \/ FetchCartRead(s, ok)
        \/ FetchProductsRead(s, ok)
        \/ \E p \in ProductIds : AddToCart("s1", p, ok)
        \/ AddWrite(s, ok)

SpecSignOut == InitSignOut /\ [][NextSignOut]_vars

\* The back office at work on products and orders while the role of its
\* user is changed in the store.  The store starts as a checkout of one line
\* of the seeded product leaves it.
AdminOps == {"handleProductSubmit", "handleDeleteProduct", "handleUpdateOrderStatus"}

PlacedCart ==
    cartWithProducts({[id |-> <<"u1", 1, 1>>, user_id |-> "u1", product_id |-> 1,
                       quantity |-> 1]}, (1 :> 1))

InitRoles ==
    /\ StoreSeeded((1 :> 1))
    /\ orders = <<[user_id |-> "u1", total_amount |-> getCartTotal(PlacedCart),
                   status |-> "pending"]>>
    /\ order_items = orderItems(1, PlacedCart)
    /\ Clients(BackOffice, AdminOps)

NextRoles ==
    \E ok \in BOOLEAN :
        \/ Login("s2", "u2")
        \/ Logout("s2")
        \/ FetchCartRead("s2", ok)
        \/ FetchProductsRead("s2", ok)
        \/ \E role \in Roles : UpdateProfile("u2", "u2", role)
        \/ \E id \in {0} \cup ProductIds, f \in Forms :
              HandleProductSubmit("s2", id, f.nameEmpty, f.price, f.categoryEmpty, ok)
        \/ \E id \in ProductIds : HandleDeleteProduct("s2", id, ok)
        \/ \E o \in OrderIds, st \in Statuses : HandleUpdateOrderStatus("s2", o, st, ok)

SpecRoles == InitRoles /\ [][NextRoles]_vars

\* The registered user u1 signing in and out at browser s1 and using what
\* the dashboard offers, while u1 and the admin u2 send updates of profiles
\* to the store.
InitProfiles ==
    /\ StoreSeeded((1 :> 1))
    /\ orders = <<[user_id |-> "u1", total_amount |-> getCartTotal(PlacedCart),
                   status |-> "pending"]>>
    /\ order_items = orderItems(1, PlacedCart)
    /\ Clients(NobodySignedIn, AdminOps \cup {"updateProfile"})

NextProfiles ==
    \E ok \in BOOLEAN :
        \/ Login("s1", "u1")
        \/ Logout("s1")
        \/ FetchCartRead("s1", ok)
        \/ FetchProductsRead("s1", ok)
        \/ \E caller \in Users, uid \in Users, role \in Roles :
              UpdateProfile(caller, uid, role)
        \/ \E id \in ProductIds : HandleDeleteProduct("s1", id, ok)
        \/ \E o \in OrderIds, st \in Statuses : HandleUpdateOrderStatus("s1", o, st, ok)

SpecProfiles == InitProfiles /\ [][NextProfiles]_vars

\* The back office alone, working the product modal and the orders list.
NextDashboard ==
    \E ok \in BOOLEAN :
        \/ OpenProductModal("s2")
        \/ \E id \in ProductIds, price \in Prices : HandleEditProduct("s2", id, price)
        \/ \E f \in Forms : SetProductForm("s2", f)
        \/ CloseModal("s2")
        \/ SubmitProductForm("s2", ok)
        \/ \E id \in ProductIds : HandleDeleteProduct("s2", id, ok)
        \/ \E o \in OrderIds, st \in Statuses : HandleUpdateOrderStatus("s2", o, st, ok)

SpecDashboard == InitRoles /\ [][NextDashboard]_vars

\* The shopper filling a cart with the one seeded product and checking out,
\* while the back office edits the product's price.
InitPrices ==
    /\ StoreSeeded((1 :> 1))
    /\ NoOrders
    /\ Clients(BackOffice, {"checkout"})

NextPrices ==
    \E ok \in BOOLEAN :
        \/ Login("s1", "u1")
        \/ FetchCartRead("s1", ok)
        \/ FetchProductsRead("s1", ok)
        \/ \E p \in ProductIds : AddToCart("s1", p, ok)
        \/ AddWrite("s1", ok)
        \/ Checkout("s1", ok)
        \/ CheckoutItems("s1", ok)
        \/ CheckoutClear("s1", ok)
        \/ \E id \in ProductIds, f \in ValidForms :
              HandleProductSubmit("s2", id, f.nameEmpty, f.price, f.categoryEmpty, ok)

SpecPrices == InitPrices /\ [][NextPrices]_vars

\* ------------------------------------------------------------------ claims
RECURSIVE SumOfLines(_)
\* The sum of price * quantity over a set of lines (cart lines or order lines).
SumOfLines(lines) ==
    IF lines = {} THEN 0
    ELSE LET l == CHOOSE x \in lines : TRUE
         IN  (l.quantity * l.price) + SumOfLines(lines \ {l})

LinesOf(o) == {r \in order_items : r.order_id = o}

\* A step in which handler op of session s is called or returns at once.
Called(s, op) == task[s].pc = "idle" /\ last'.session = s /\ last'.op = op

\* C1, first store call: a checkout called with a user and a non-empty loaded
\* cart, whose insert succeeds, appends exactly one order, owned by the
\* user, 'pending', with the total of the loaded cart.
C1_OrderStep(s) ==
    (Called(s, "checkout") /\ last'.event = "call") =>
        /\ user[s] # NoUser /\ cartItems[s] # {}
        /\ Len(orders') = Len(orders) + 1
        /\ \A o \in DOMAIN orders : orders'[o] = orders[o]
        /\ orders'[Len(orders')] = [user_id |-> user[s],
                                    total_amount |-> SumOfLines(cartItems[s]),
                                    status |-> "pending"]
        /\ order_items' = order_items /\ cart_items' = cart_items

\* C1, second store call: the insert that succeeds adds exactly one order
\* line per loaded line, with that line's product, quantity and price.
C1_LinesStep(s) ==
    (task[s].pc = "co_items" /\ task'[s].pc = "co_clear") =>
        LET new == order_items' \ order_items
        IN  /\ order_items \subseteq order_items'
            /\ Cardinality(new) = Cardinality(cartItems[s])
            /\ \A item \in cartItems[s] :
                  Cardinality({r \in new : /\ r.order_id = Len(orders)
                                           /\ r.product_id = item.product_id
                                           /\ r.quantity = item.quantity
                                           /\ r.price = item.price}) = 1
            /\ orders' = orders /\ cart_items' = cart_items

\* C1, third store call: when the clear succeeds too, the user has no cart
\* row left, the in-memory cart is empty and success is reported.
C1_ClearStep(s) ==
    (task[s].pc = "co_clear" /\ last'.event = "return"
        /\ T_ClearFailed \notin last'.toasts) =>
        /\ {r \in cart_items' : r.user_id = user[s]} = {}
        /\ cartItems'[s] = {}
        /\ last'.toasts = {T_OrderPlaced}
        /\ orders' = orders /\ order_items' = order_items

\* C1: a checkout of a signed-in user with a non-empty loaded cart, no store
\* call of which fails, creates one pending order with the cart's total and
\* one order line per loaded line, and leaves the cart empty in the store
\* and in memory.
C1_CheckoutPlacesOrder ==
    [][\A s \in Sessions : C1_OrderStep(s) /\ C1_LinesStep(s) /\ C1_ClearStep(s)]_vars

\* A checkout of a two-line cart (one line of quantity 2) has just reported
\* success.
C1_Witness ==
    /\ last.op = "checkout" /\ last.event = "return" /\ last.toasts = {T_OrderPlaced}
    /\ Len(orders) = 1
    /\ Cardinality(LinesOf(1)) = 2
    /\ \E r \in LinesOf(1) : r.quantity = 2
    /\ orders[1].total_amount = SumOfLines(LinesOf(1))
    /\ cartItems["s1"] = {} /\ CartRowsOwned("u1") = {}

\* C2: an order's total_amount equals the sum of quantity * price over its
\* order lines, and stays so: once an order's total equals the sum of its
\* lines, no step makes the two differ or rewrites total_amount.
C2_TotalStaysSumOfLines ==
    [][\A o \in DOMAIN orders :
          orders[o].total_amount = SumOfLines(LinesOf(o)) =>
              /\ o \in DOMAIN orders'
              /\ orders'[o].total_amount = orders[o].total_amount
              /\ orders'[o].total_amount =
                     SumOfLines({r \in order_items' : r.order_id = o})]_vars

\* C3: an order and its lines are created together: no reachable state holds
\* an order none, or only some, of whose lines exist.
C3_OrderHasItsLines ==
    \A o \in DOMAIN orders :
        /\ LinesOf(o) # {}
        /\ \A s \in Sessions :
              task[s].op = "checkout" /\ task[s].order = o =>
                  orderItems(o, task[s].items) \subseteq order_items

\* The cart rows of user uid for product p.
LineRows(uid, p) == {r \in cart_items : r.user_id = uid /\ r.product_id = p}

\* C4: the write of an addToCart that met no store failure raises the
\* quantity of the user's existing row for the product by exactly 1 and
\* touches nothing else, or, when the user has no row for it, inserts one row
\* of quantity 1: two adds in sequence leave one row of quantity 2.
C4_AddIncrementsOrInserts ==
    [][\A s \in Sessions :
          (task[s].pc = "add_write" /\ task'[s].pc = "fetch") =>
              LET t == task[s]
                  rows == LineRows(t.user, t.pid)
              IN  /\ (rows # {} /\ t.existing \in rows) =>
                        /\ Cardinality(rows) = 1
                        /\ cart_items' = (cart_items \ rows) \cup
                              {[r EXCEPT !.quantity = r.quantity + 1] : r \in rows}
                  /\ (rows = {} /\ t.existing = NoRow) =>
                        \E new \in cart_items' :
                            /\ new \notin cart_items
                            /\ cart_items' = cart_items \cup {new}
                            /\ new.user_id = t.user /\ new.product_id = t.pid
                            /\ new.quantity = 1]_vars

\* The second of two addToCart calls for product 1 has written: one row, of
\* quantity 2.
C4_Witness ==
    /\ task["s1"].op = "addToCart" /\ task["s1"].pc = "fetch"
    /\ task["s1"].pid = 1 /\ task["s1"].existing.quantity = 1
    /\ Cardinality(LineRows("u1", 1)) = 1
    /\ \A r \in LineRows("u1", 1) : r.quantity = 2

\* C6: every cart row of the store and every line of every in-memory cart has
\* a quantity of at least 1.
C6_QuantityAtLeastOne ==
    /\ \A r \in cart_items : r.quantity >= 1
    /\ \A s \in Sessions : \A item \in cartItems[s] : item.quantity >= 1

\* updateQuantity(p, 0) has just been called on a loaded line of quantity 1
\* (the minus button): the row is gone, another row is still there.
C6_Witness ==
    /\ last.op = "updateQuantity" /\ last.event = "call" /\ last.qty = 0
    /\ \E item \in cartItems["s1"] : item.product_id = last.pid /\ item.quantity = 1
    /\ LineRows("u1", last.pid) = {}
    /\ cart_items # {}

\* C7: updateQuantity(p, q) with q <= 0 does what removeFromCart(p) does: it
\* deletes the user's row for p when there is one and nothing else, goes on
\* to reload the cart, and writes no quantity; a failed delete is reported
\* as a failed removal; without a user nothing happens.
C7_NonPositiveQuantityRemoves ==
    [][\A s \in Sessions :
          (Called(s, "updateQuantity") /\ last'.qty <= 0) =>
              IF user[s] = NoUser
              THEN /\ last'.event = "return" /\ last'.toasts = {}
                   /\ cart_items' = cart_items /\ task'[s] = task[s]
              ELSE \/ /\ last'.event = "call"
                      /\ cart_items' = cart_items \ LineRows(user[s], last'.pid)
                      /\ task'[s].pc = "fetch"
                   \/ /\ last'.event = "return" /\ last'.toasts = {T_RemoveFailed}
                      /\ cart_items' = cart_items /\ task'[s] = task[s]]_vars

\* updateQuantity(p, -1) has just been called on a loaded line: the row is
\* gone and the reload is under way.
C7_Witness ==
    /\ last.op = "updateQuantity" /\ last.event = "call" /\ last.qty < 0
    /\ \E item \in cartItems["s1"] : item.product_id = last.pid
    /\ LineRows("u1", last.pid) = {}
    /\ task["s1"].pc = "fetch"

\* Two lines at 16.99 x 2 and 8.99 x 1, in cents.
ExampleLines ==
    {[id |-> <<"u1", 1, 1>>, product_id |-> 1, name |-> "product", price |-> 1699, quantity |-> 2],
     [id |-> <<"u1", 2, 1>>, product_id |-> 2, name |-> "product", price |-> 899, quantity |-> 1]}

\* C8: getCartTotal is the sum of price * quantity over the loaded lines, 0
\* for an empty cart; lines at 16.99 x 2 and 8.99 x 1 total 42.97.
C8_TotalIsSumOfLoadedLines ==
    /\ \A s \in Sessions : getCartTotal(cartItems[s]) = SumOfLines(cartItems[s])
    /\ getCartTotal({}) = 0
    /\ getCartTotal(ExampleLines) = 4297

\* A loaded cart of two lines, one of quantity 2.
C8_Witness ==
    /\ Cardinality(cartItems["s1"]) = 2
    /\ \E item \in cartItems["s1"] : item.quantity = 2 /\ item.price > 0
    /\ getCartTotal(cartItems["s1"]) >= 4

\* C9: a checkout called while the loaded cart is empty returns at once with
\* the empty-cart message ('Cart is empty' from checkout, 'Your cart is
\* empty' from the cart page), creates no order and writes nothing.
C9_EmptyCartRejected ==
    [][\A s \in Sessions :
          /\ (Called(s, "checkout") /\ cartItems[s] = {}) =>
                /\ last'.event = "return" /\ last'.toasts = {T_CartEmpty}
                /\ storeVars' = storeVars /\ task' = task /\ cartItems' = cartItems
          /\ (Called(s, "handleCheckout") /\ user[s] # NoUser /\ cartItems[s] = {}) =>
                /\ last'.event = "return" /\ last'.toasts = {T_YourCartEmpty}
                /\ storeVars' = storeVars /\ task' = task /\ cartItems' = cartItems]_vars

\* A signed-in shopper whose cart is empty has just been told so by checkout.
C9_Witness ==
    /\ last.op = "checkout" /\ last.event = "return" /\ last.toasts = {T_CartEmpty}
    /\ user[last.session] # NoUser
    /\ cartItems[last.session] = {}
    /\ orders = <<>>

\* C5: the store never holds two cart rows with the same user and the same
\* product, however the calls of the sessions interleave.
C5_OneRowPerUserAndProduct ==
    \A r1 \in cart_items, r2 \in cart_items :
        (r1.user_id = r2.user_id /\ r1.product_id = r2.product_id) => r1 = r2

\* Two sessions of one user raced to add the same product, both having found
\* no row: one inserted it, the other has just been refused.
C5_Witness ==
    /\ last.op = "addToCart" /\ last.event = "return" /\ last.toasts = {T_AddFailed}
    /\ \E s \in Sessions :
          /\ s # last.session
          /\ user[s] = user[last.session]
          /\ task[s].op = "addToCart" /\ task[s].pc = "fetch"
          /\ task[s].pid = last.pid /\ task[s].existing = NoRow
    /\ Cardinality(LineRows(user[last.session], last.pid)) = 1

\* C10: an admin operation invoked by a caller who is not an admin reports a
\* failure and leaves products and orders as they were.
C10_NonAdminRefused ==
    [][\A s \in Sessions :
          (last'.session = s /\ last'.op \in AdminOps /\ ~is_admin(user[s])) =>
              /\ last'.toasts # {}
              /\ last'.toasts \subseteq ErrorToasts
              /\ products' = products
              /\ orders' = orders]_vars

\* The message of the first check of handleProductSubmit that form f fails.
FirstInvalid(f) ==
    IF f.nameEmpty THEN T_NameRequired
    ELSE IF f.price <= 0 THEN T_PriceRequired
    ELSE T_CategoryRequired

\* C11: a submit of the product form, for a new product and for an edited
\* one alike, whose name is empty, whose price is <= 0 or whose category is
\* empty shows the message of the first of these checks that fails, writes
\* nothing to the store and leaves the form and the modal as they are.
C11_InvalidFormRejected ==
    [][\A s \in Sessions :
          (last'.session = s /\ last'.op = "handleProductSubmit"
              /\ modal[s].show /\ modal[s].form \notin ValidForms) =>
              /\ last'.event = "return"
              /\ last'.toasts = {FirstInvalid(modal[s].form)}
              /\ storeVars' = storeVars
              /\ modal' = modal]_vars

\* The edit of a product has just been refused for its price of 0, the name
\* and the category being filled in.
C11_Witness ==
    /\ last.op = "handleProductSubmit" /\ last.toasts = {T_PriceRequired}
    /\ modal["s2"].show /\ modal["s2"].editing # 0
    /\ modal["s2"].form.price = 0
    /\ ~modal["s2"].form.nameEmpty /\ ~modal["s2"].form.categoryEmpty

\* C12: every order line checkout writes carries the price its product has
\* in the catalog when checkout runs, also when the price was changed after
\* the in-memory cart was last loaded: the lines checkout makes up when it is
\* called carry the catalog's prices of that moment, and they are the lines
\* it then writes.
C12_LinesCarryCatalogPrice ==
    [][\A s \in Sessions :
          /\ (Called(s, "checkout") /\ last'.event = "call") =>
                \A r \in orderItems(task'[s].order, task'[s].items) :
                    /\ r.product_id \in DOMAIN products
                    /\ r.price = products[r.product_id]
          /\ (task[s].pc = "co_items" /\ task'[s].pc = "co_clear") =>
                order_items' \ order_items = orderItems(task[s].order, task[s].items)]_vars

\* C13: order lines are immutable: no step changes the quantity or price of
\* an order line, removes it, or leaves it referring to a product or an order
\* that no longer exists.
C13_OrderLinesImmutable ==
    [][/\ order_items \subseteq order_items'
       /\ \A r \in order_items :
             /\ r.product_id \in DOMAIN products'
             /\ r.order_id \in DOMAIN orders']_vars

\* The status select of order o is there for session s to use.
StatusSelectShown(s, o) ==
    /\ task[s].pc = "idle" /\ DashboardShown(s) /\ is_admin(user[s])
    /\ o \in DOMAIN orders

ActingUser(s) == IF task[s].pc = "idle" THEN user[s] ELSE task[s].user

\* The owner of the cart row an id was generated for.
OwnerOfId(id) == id[1]

C16_AddWithoutUserRefused ==
    [][\A s \in Sessions :
          (Called(s, "addToCart") /\ user[s] = NoUser) =>
              /\ last'.event = "return"
              /\ last'.toasts = {T_LoginToAdd}
              /\ UNCHANGED <<storeVars, cartItems, task, user>>]_vars

\* addToCart has been refused at a browser with nobody signed in, while the
\* store holds a cart row (of the user signed in at the other browser).
C16_Witness ==
    /\ last.op = "addToCart" /\ last.event = "return"
    /\ last.toasts = {T_LoginToAdd}
    /\ user[last.session] = NoUser
    /\ cart_items # {}

\* C17: updateQuantity(p, q) with q >= 1, called by a signed-in user who has
\* no cart row for p, returns at once with a failure message and leaves
\* cart_items as it is.
C17_MissingLineReported ==
    [][\A s \in Sessions :
          (Called(s, "updateQuantity") /\ last'.qty >= 1 /\ user[s] # NoUser
              /\ LineRows(user[s], last'.pid) = {}) =>
              /\ last'.event = "return"
              /\ last'.toasts # {} /\ last'.toasts \subseteq ErrorToasts
              /\ cart_items' = cart_items]_vars

\* C18: removeFromCart(p), called by a signed-in user, deletes exactly that
\* user's cart row for p when the delete is answered without error, and
\* leaves every other row as it is; when the user has no row for p the store
\* is unchanged and the call goes on without a failure message.  A delete
\* answered with an error changes nothing and is reported.
C18_RemoveDeletesOneLine ==
    [][\A s \in Sessions :
          (Called(s, "removeFromCart") /\ user[s] # NoUser) =>
              LET rows == LineRows(user[s], last'.pid)
              IN  /\ Cardinality(rows) <= 1
                  /\ \/ /\ last'.event = "call" /\ last'.toasts = {}
                        /\ cart_items' = cart_items \ rows
                     \/ /\ last'.event = "return" /\ last'.toasts = {T_RemoveFailed}
                        /\ cart_items' = cart_items
                  /\ UNCHANGED <<profiles, products, usedProductIds, orders,
                                 order_items>>]_vars

\* removeFromCart(1) has been called, without a message, by a user whose
\* loaded cart showed the line of product 2 only: the row of product 2, of
\* quantity 2, is still there and there is no row of product 1.
C18_Witness ==
    /\ last.op = "removeFromCart" /\ last.event = "call" /\ last.pid = 1
    /\ last.toasts = {}
    /\ user["s1"] = "u1"
    /\ {l.product_id : l \in cartItems["s1"]} = {2}
    /\ LineRows("u1", 1) = {}
    /\ \E r \in LineRows("u1", 2) : r.quantity = 2

\* C19: an invocation of addToCart whose lookup of the existing line was
\* answered with an error has shown a failure message by the time it returns.
C19_LookupErrorReported ==
    [][\A s \in Sessions :
          (task[s].op = "addToCart" /\ task[s].lookupError
              /\ task'[s].pc = "idle" /\ last'.event = "return") =>
              last'.toasts \cap ErrorToasts # {}]_vars

\* The lines of an in-memory cart whose product no products read held.
UnknownLines(s) == {l \in cartItems[s] : l.name = "Unknown Product"}

\* C20: a reload whose two reads were answered without error leaves one
\* in-memory line per cart row read, with the row's id, product and
\* quantity; the line of a row whose product was not among the products read
\* is named 'Unknown Product' and priced 0, the other lines carry the price
\* read.  While such a line is shown, removeFromCart of its product and
\* clearCart go through as for any line when the store answers without error.
C20_UnknownProductKept ==
    /\ [][\A s \in Sessions :
             (task[s].pc = "fetch" /\ task'[s].pc = "idle"
                 /\ last'.session = s /\ T_LoadFailed \notin last'.toasts) =>
                 LET rows == IF task[s].cartRes.st = "pending"
                             THEN CartRowsOwned(task[s].user)
                             ELSE task[s].cartRes.rows
                     prods == IF task[s].prodRes.st = "pending"
                              THEN products
                              ELSE task[s].prodRes.prods
                 IN  /\ Cardinality(cartItems'[s]) = Cardinality(rows)
                     /\ \A r \in rows : \E l \in cartItems'[s] :
                           /\ l.id = r.id /\ l.product_id = r.product_id
                           /\ l.quantity = r.quantity
                           /\ IF r.product_id \in DOMAIN prods
                              THEN l.name # "Unknown Product"
                                   /\ l.price = prods[r.product_id]
                              ELSE l.name = "Unknown Product" /\ l.price = 0]_vars
    /\ [](\A s \in Sessions : \A l \in UnknownLines(s) :
             (task[s].pc = "idle" /\ user[s] # NoUser) =>
                 /\ ENABLED (RemoveFromCart(s, l.product_id, TRUE)
                                /\ last'.event = "call" /\ last'.toasts = {})
                 /\ ENABLED (ClearCart(s, TRUE) /\ cartItems'[s] = {}
                                /\ CartRowsOwned(user[s])' = {}
                                /\ last'.toasts = {}))

\* After a reload answered without error the loaded cart shows product 1,
\* deleted by the admin between the two reads, as 'Unknown Product' at price
\* 0 with its quantity 2, next to the line of product 2 at its price.
C20_Witness ==
    /\ last.session = "s1" /\ last.event = "return" /\ last.toasts = {}
    /\ \E l \in cartItems["s1"] :
          /\ l.product_id = 1 /\ l.name = "Unknown Product"
          /\ l.price = 0 /\ l.quantity = 2
    /\ \E l \in cartItems["s1"] :
          /\ l.product_id = 2 /\ l.name = "product" /\ l.price = Seeded[2]
    /\ Cardinality(cartItems["s1"]) = 2

\* Invocations s and t of addToCart run in one browser for the same user
\* and have both found the line `row` in their lookups.
BothFound(s, t, row) ==
    /\ s # t /\ provider[s] = provider[t]
    /\ task[s].op = "addToCart" /\ task[t].op = "addToCart"
    /\ task[s].user = task[t].user
    /\ task[s].existing = row /\ task[t].existing = row
    /\ row # NoRow

\* C21: when two addToCart calls of one session have both looked up the
\* line at quantity n before either wrote, each of the two writes that the
\* store answers without error sets the quantity to n + 1: the second write
\* goes through without a failure and leaves n + 1, not n + 2.
C21_ConcurrentAddsLoseUpdate ==
    [][\A s \in Sessions, t \in Sessions :
          LET row == task[s].existing
          IN  (BothFound(s, t, row) /\ task[s].pc = "add_write"
                  /\ task'[s].pc = "fetch") =>
                  /\ {r \in cart_items' : r.user_id = task[s].user
                                              /\ r.product_id = task[s].pid} =
                        {[row EXCEPT !.quantity = row.quantity + 1]}
                  /\ task'[s].toasts = {}
                  /\ last'.toasts = {}]_vars

\* Two addToCart calls of one browser have both read the line at quantity 1
\* and both written: the line stands at 2, and both go on to their reloads.
C21_Witness ==
    \E row \in {task["s1"].existing} :
        /\ BothFound("s1", "s2", row) /\ row.quantity = 1
        /\ task["s1"].pc = "fetch" /\ task["s2"].pc = "fetch"
        /\ task["s1"].toasts = {} /\ task["s2"].toasts = {}
        /\ LineRows(row.user_id, row.product_id) = {[row EXCEPT !.quantity = 2]}

\* C22: checkout does not compensate.  When the insert of the order lines
\* fails after the order was inserted, the invocation returns with 'Failed to
\* process checkout', the order stays in the store without lines, and the
\* cart rows and the in-memory cart are as before.  When only the clearing
\* of the cart fails, the order and its lines stay, and so do the cart rows
\* and the (non-empty) in-memory cart.
C22_NoCompensation ==
    [][\A s \in Sessions :
          /\ (task[s].pc = "co_items" /\ task'[s].pc = "idle") =>
                /\ last'.toasts = {T_CheckoutFailed}
                /\ orders' = orders /\ task[s].order \in DOMAIN orders'
                /\ order_items' = order_items
                /\ {r \in order_items' : r.order_id = task[s].order} = {}
                /\ cart_items' = cart_items /\ cartItems' = cartItems
          /\ (task[s].pc = "co_clear" /\ task'[s].pc = "idle"
                 /\ T_ClearFailed \in last'.toasts) =>
                /\ orders' = orders /\ order_items' = order_items
                /\ cart_items' = cart_items /\ cartItems' = cartItems
                /\ cartItems'[provider[s]] # {}]_vars

\* A checkout has returned with 'Failed to process checkout' and has left
\* an order without lines, next to the user's cart rows and loaded cart.
C22_Witness ==
    /\ last.op = "checkout" /\ last.event = "return"
    /\ last.toasts = {T_CheckoutFailed}
    /\ Len(orders) = 1 /\ LinesOf(1) = {}
    /\ CartRowsOwned("u1") # {} /\ cartItems["s1"] # {}

\* Invocation t is a checkout in flight in the browser of slot s.
CheckoutInFlight(s, t) ==
    /\ t # s /\ provider[t] = provider[s]
    /\ task[t].op = "checkout" /\ task[t].pc \in {"co_items", "co_clear"}

\* C23: a click on the checkout button that comes while a checkout of the
\* same browser is still in flight creates no order.
C23_OneOrderPerCart ==
    [][\A s \in Sessions :
          (Called(s, "checkout") /\ \E t \in Sessions : CheckoutInFlight(s, t)) =>
              orders' = orders]_vars

\* C24: a checkout that returns having shown 'Order placed successfully!'
\* has deleted the user's cart rows and emptied the in-memory cart, and has
\* not shown 'Failed to clear cart'.
C24_SuccessMeansCleared ==
    [][\A s \in Sessions :
          (task[s].op = "checkout" /\ task'[s].pc = "idle"
              /\ last'.session = s /\ T_OrderPlaced \in last'.toasts) =>
              /\ {r \in cart_items' : r.user_id = task[s].user} = {}
              /\ cartItems'[provider[s]] = {}
              /\ T_ClearFailed \notin last'.toasts]_vars

\* C25: a click on 'Add to Cart' whose store write (the insert or the
\* update of addToCart) was answered with an error or refused shows no
\* '<product> added to cart!'.
C25_SuccessToastOnlyAfterWrite ==
    [][\A s \in Sessions :
          (task[s].op = "handleAddToCart" /\ task[s].pc = "add_write"
              /\ task'[s].pc = "idle" /\ cart_items' = cart_items) =>
              T_AddedToCart \notin last'.toasts]_vars

\* C26: every cart row that the clearing step of a checkout deletes is the
\* row of a line of the order the checkout placed: same product, same
\* quantity.
C26_OnlyOrderedLinesDeleted ==
    [][\A s \in Sessions :
          (task[s].pc = "co_clear" /\ task'[s].pc = "idle") =>
              \A r \in cart_items \ cart_items' :
                  \E l \in task[s].items :
                      l.product_id = r.product_id /\ l.quantity = r.quantity]_vars

\* C27: an update of profiles that changes a role is sent by a caller whose
\* own role is 'admin' when it is sent.
C27_RoleChangedByAdminOnly ==
    [][(last'.op = "updateProfile" /\ profiles' # profiles) =>
          is_admin(last'.session)]_vars

\* The product and quantity of each line or row of a set.
Contents(lines) == {<<l.product_id, l.quantity>> : l \in lines}

\* C28: when addToCart, removeFromCart or updateQuantity returns without a
\* failure message and no other invocation is in flight, the in-memory cart
\* has one line per cart row of the user in the store, with the same
\* products and quantities; when clearCart returns without a failure
\* message, the in-memory cart and the user's cart rows are both empty.
C28_MemoryEqualsStoreAfterOp ==
    [][\A s \in Sessions :
          LET U == ActingUser(s)
              rows == {r \in cart_items' : r.user_id = U}
          IN  (last'.session = s /\ last'.event = "return" /\ last'.toasts = {}
                  /\ U # NoUser /\ \A t \in Sessions : task'[t].pc = "idle") =>
                  /\ last'.op \in {"addToCart", "removeFromCart", "updateQuantity"} =>
                        /\ Contents(cartItems'[provider[s]]) = Contents(rows)
                        /\ Cardinality(cartItems'[provider[s]]) = Cardinality(rows)
                  /\ last'.op = "clearCart" =>
                        cartItems'[provider[s]] = {} /\ rows = {}]_vars

\* updateQuantity has returned without a message with nothing else in
\* flight: the loaded cart and the store both hold product 1 at quantity 2.
C28_Witness ==
    /\ last.session = "s1" /\ last.op = "updateQuantity" /\ last.event = "return"
    /\ last.toasts = {}
    /\ \A t \in Sessions : task[t].pc = "idle"
    /\ Contents(cartItems["s1"]) = {<<1, 2>>}
    /\ Contents(CartRowsOwned("u1")) = {<<1, 2>>}

\* C29: a browser where nobody is signed in holds an empty in-memory cart,
\* and a browser where a user is signed in holds lines of that user's rows
\* only, whenever its reloads complete.
C29_NoUserNoCart ==
    \A s \in Sessions :
        /\ user[s] = NoUser => cartItems[s] = {}
        /\ \A l \in cartItems[s] : OwnerOfId(l.id) = user[s]

\* C30: an invocation one of whose store calls was answered with an error
\* (here: the lookup of addToCart) writes nothing to the store afterwards,
\* and an invocation that has made its write and gone on to the reload writes
\* nothing more.
C30_NoWriteAfterError ==
    [][\A s \in Sessions :
          (task[s].pc # "idle" /\ task'[s] # task[s]
              /\ (task[s].lookupError \/ task[s].pc = "fetch")) =>
              storeVars' = storeVars]_vars

====
